---- MODULE Spec2Model ----
(***************************************************************************)
(* Model of instamatic's cRED image conversion (ImgConversion): the        *)
(* constructor that drains the acquisition buffer into the frame store and *)
(* derives the geometry, and the five encoders (writeTiff, writeIMG,       *)
(* MRCCreator, ED3DCreator, XDSINPCreator) acting on a file system.        *)
(* Further down: the pixels of writeIMG's 516 -> 512 re-packing, the stage *)
(* calibration of calibrate_stagematrix (calibrate_stage and               *)
(* calibrate_stage_from_stagepos, one step per stage move), and            *)
(* get_new_work_subdirectory of io.  Each has a specification of its own.  *)
(*                                                                         *)
(* Numbers.  Python floats are modelled as exact rationals over integers:  *)
(*   angles           in tenths of a degree      (0.5 deg  = 5)            *)
(*   pixel sizes      in units of 10^-5          (0.00412  = 412, 1.0 =    *)
(*                                                100000)                  *)
(*   beam centers     as sums over the frames with the frame count, that   *)
(*                    is [sx, sy, n] for (sx/n, sy/n); n = 0 is numpy's    *)
(*                    nan, the mean of an empty list                       *)
(*   distance         as [num, den] for num/den                            *)
(* An object is a function from the names of the attributes assigned so    *)
(* far to their values, so that reading an attribute that was never        *)
(* assigned is visible as a name outside the DOMAIN (AttributeError).      *)
(***************************************************************************)
EXTENDS Integers, Sequences, FiniteSets, TLC

VARIABLES
    pc,          \* "new": before ImgConversion(...); "constructed"; "failed"
    buffer,      \* the caller's list of (img, h) pairs, drained by __init__
    acquired,    \* the buffer as the acquisition loop handed it over
    ctor,        \* the arguments and configuration of the constructor call
    self,        \* the ImgConversion object: attribute name -> value
    err,         \* the exception raised by __init__, "" when none
    files,       \* the file system: file name -> content
    last,        \* the latest encoder call and how it ended
    ncalls,      \* the number of encoder calls made so far
    smv,         \* an image under writeIMG's re-packing and the pixel looked at
    cal,         \* a stage calibration: its arguments, ctrl.stage and progress
    work         \* the work directory and the get_new_work_subdirectory calls

vars == <<pc, buffer, acquired, ctor, self, err, files, last, ncalls,
          smv, cal, work>>

\* the variables of the operations outside ImgConversion
others == <<smv, cal, work>>

(***************************************************************************)
(* Bounds and inputs                                                       *)
(***************************************************************************)
MaxFrames == 3

\* encoder calls made on one object; the encoders keep no count, the bound
\* keeps the file systems reached finite in number
MaxCalls == 2

\* times the SMV re-packing is applied to one image
MaxPacks == 2

\* the largest min_n_step and max_n_step handed to calibrate_stage
MaxNStep == 4

\* calls of get_new_work_subdirectory on one file system
MaxWorkCalls == 2

\* raw detector images, by identity
Images == {1, 2, 3}

\* the acquisition header of the frame that holds raw image i
HeaderOf(i) == [ImageGetTime |-> 100 + i, ImageExposureTime |-> 5 * i]

\* (img, h) pairs as the acquisition loop appends them to the buffer
Pairs == {<<i, HeaderOf(i)>> : i \in Images}

Buffers == UNION {[1..n -> Pairs] : n \in 0..MaxFrames}

\* the buffers of a scan in which consecutive frames hold different images:
\* images 3, 2, 1, 3, ...
ScanImage(k) == 3 - ((k - 1) % 3)

ScanBuffers ==
    {[k \in 1..n |-> <<ScanImage(k), HeaderOf(ScanImage(k))>>] : n \in 0..MaxFrames}

\* the pixel size 1.0 of an entry that was never calibrated, in units of 10^-5
InvalidPixelsize == 100000

\* config.diffraction_pixeldimensions: camera length -> pixel size (10^-5);
\* 150 holds 0.0 and 200 holds the 1.0 of an uncalibrated entry
pxd == (150 :> 0) @@ (200 :> InvalidPixelsize) @@ (250 :> 412)

CameraLengths == {100, 150, 200, 250}

\* (osangle, startangle, endangle) of a scan, tenths of a degree
Scans == {<<5, 100, 115>>, <<10, -200, -170>>}

RotationAngles == {0, 3}

Paths == {"smv"}

\* the empty mapping: an object without attributes, a directory without files
Empty == [k \in {} |-> 0]

(***************************************************************************)
(* External collaborators, by what they return                             *)
(***************************************************************************)
\* read_tiff(os.path.join(curdir, 'flatfield.tiff'))
FlatfieldImage == [file |-> "flatfield.tiff"]

apply_flatfield_correction(img, flatfield) ==
    [raw |-> img, flatfield |-> flatfield]

\* find_beam_center(img, sigma=10): the detected (x, y) of a corrected image
find_beam_center(img) ==
    CASE img.raw = 1 -> <<100, 120>>
      [] img.raw = 2 -> <<255, 256>>
      [] OTHER       -> <<258, 259>>

(***************************************************************************)
(* ImgConversion.__init__                                                  *)
(***************************************************************************)
physical_pixelsize == 55
wavelength == 25080
DistanceNum == 48389 * 412

mrc_header == [nx |-> 516, ny |-> 516, nz |-> 1, mode |-> 1, nbytes |-> 1024]

RECURSIVE SumX(_), SumY(_)
SumX(data) ==
    IF data = <<>> THEN 0 ELSE find_beam_center(Head(data))[1] + SumX(Tail(data))
SumY(data) ==
    IF data = <<>> THEN 0 ELSE find_beam_center(Head(data))[2] + SumY(Tail(data))

\* np.mean([find_beam_center(img, sigma=10) for img in self.data], axis=0)
get_average_beam_center(data) ==
    [sx |-> SumX(data), sy |-> SumY(data), n |-> Len(data)]

\* buffer.pop(): the last pair, not the first
pop_last(buf) == [item |-> buf[Len(buf)], rest |-> SubSeq(buf, 1, Len(buf) - 1)]

\* buffer.pop(0): the removed pair and the list it leaves
pop_first(buf) == [item |-> Head(buf), rest |-> Tail(buf)]

\* while len(buffer) != 0: img, h = buffer.pop(0); append h; append corrected
RECURSIVE DrainLoop(_, _, _, _)
DrainLoop(buf, headers, data, flatfield) ==
    IF Len(buf) = 0
    THEN [buffer |-> buf, headers |-> headers, data |-> data]
    ELSE LET p   == pop_first(buf)
             img == p.item[1]
             h   == p.item[2]
         IN  DrainLoop(p.rest,
                       Append(headers, h),
                       Append(data, apply_flatfield_correction(img, flatfield)),
                       flatfield)

\* 483.89*0.00412/self.pixelsize, for pixelsize # 0
Distance(pixelsize) == [num |-> DistanceNum, den |-> 100 * pixelsize]

\* the whole constructor: the exception it raises ("" when it returns), the
\* attributes assigned by then, and the caller's buffer as it leaves it
InitEffect(buf, c) ==
    LET s0 == "pxd" :> pxd
    IN
    IF ~c.flatfield_exists
    THEN [err |-> "IOError", self |-> s0, buffer |-> buf]
    ELSE
    LET d  == DrainLoop(buf, <<>>, <<>>, FlatfieldImage)
        s1 == ("flatfield" :> FlatfieldImage) @@ ("mrc_header" :> mrc_header)
              @@ ("headers" :> d.headers) @@ ("data" :> d.data) @@ s0
    IN
    IF c.camera_length \notin DOMAIN pxd
    THEN [err |-> "KeyError", self |-> s1, buffer |-> d.buffer]
    ELSE
    LET s2 == ("pixelsize" :> pxd[c.camera_length])
              @@ ("physical_pixelsize" :> physical_pixelsize)
              @@ ("wavelength" :> wavelength)
              @@ ("beam_center" :> get_average_beam_center(d.data)) @@ s1
    IN
    IF s2.pixelsize = 0
    THEN [err |-> "ZeroDivisionError", self |-> s2, buffer |-> d.buffer]
    ELSE
    LET s3 == ("distance" :> Distance(s2.pixelsize))
              @@ ("osangle" :> c.osangle) @@ ("startangle" :> c.startangle)
              @@ ("endangle" :> c.endangle)
              @@ ("rotation_angle" :> c.rotation_angle)
              @@ ("dmax" :> c.resolution_range[1])
              @@ ("dmin" :> c.resolution_range[2]) @@ s2
    IN  [err |-> "", self |-> s3, buffer |-> d.buffer]

Construct ==
    /\ pc = "new"
    /\ LET r == InitEffect(buffer, ctor)
       IN  /\ pc' = IF r.err = "" THEN "constructed" ELSE "failed"
           /\ buffer' = r.buffer
           /\ self' = r.self
           /\ err' = r.err
    /\ UNCHANGED <<acquired, ctor, files, last, ncalls, others>>

(***************************************************************************)
(* File names and the file system                                          *)
(***************************************************************************)
RECURSIVE ZeroPad(_, _)
ZeroPad(s, width) == IF Len(s) >= width THEN s ELSE ZeroPad("0" \o s, width)

\* "{:05d}".format(j)
Fmt05(j) == ZeroPad(ToString(j), 5)

\* os.path.join(path, name)
join(path, name) == path \o "/" \o name

\* a file opened for appending: the content follows what the file held
WriteFile_append(fs, fn, content) ==
    IF fn \in DOMAIN fs
    THEN (fn :> [appended |-> content, to |-> fs[fn]]) @@ fs
    ELSE (fn :> content) @@ fs

\* a file after a successful open-for-writing and write of content
WriteFile(fs, fn, content) == (fn :> content) @@ fs

\* what is left of a file whose write was cut short
Truncated == [fmt |-> "truncated"]

\* the I/O failures a call can meet: none, or at the frame with 0-based index
\* `at`, either on opening the file (the exception names the file and the
\* file is untouched) or on writing to it (errno only, the file is cut)
NoFail == [at |-> -1, kind |-> ""]
FrameFails(n) == {NoFail} \cup [at : 0..(n - 1), kind : {"open", "write"}]
OpenFails == {NoFail, [at |-> 0, kind |-> "open"]}

\* a frame's write meeting failure f: the file system and the exception
FailedWrite(fs, fn, i, f) ==
    [files    |-> IF f.kind = "write" THEN WriteFile(fs, fn, Truncated) ELSE fs,
     outcome  |-> "IOError",
     frame    |-> i,
     filename |-> IF f.kind = "open" THEN fn ELSE ""]

Returned(fs) == [files |-> fs, outcome |-> "ok", frame |-> -1, filename |-> ""]

Raised(fs, exc) == [files |-> fs, outcome |-> exc, frame |-> -1, filename |-> ""]

(***************************************************************************)
(* writeTiff                                                               *)
(***************************************************************************)
TiffName(path, j) == join(path, Fmt05(j) \o ".tiff")

\* write_tiff(fn, img, header=h)
TiffContent(img, h) == [fmt |-> "tiff", img |-> img, header |-> h]

RECURSIVE writeTiffLoop(_, _, _, _, _)
writeTiffLoop(s, path, fs, i, f) ==
    IF i >= Len(s.data) THEN Returned(fs)
    ELSE LET j  == i + 1
             fn == TiffName(path, j)
         IN  IF f.at = i THEN FailedWrite(fs, fn, i, f)
             ELSE writeTiffLoop(s, path,
                                WriteFile(fs, fn, TiffContent(s.data[i + 1], s.headers[i + 1])),
                                i + 1, f)

writeTiffEffect(s, path, fs, f) == writeTiffLoop(s, path, fs, 0, f)

(***************************************************************************)
(* writeIMG: the pixels of the SMV image                                   *)
(*                                                                         *)
(* An image is its shape and its pixels, a function of <<row, column>>     *)
(* counted from 0.  Pixel values are in tenths of a count, so that the     *)
(* cast to unsigned 16 bit has a fraction to drop.                         *)
(***************************************************************************)
Coords(shape) == (0 .. shape[1] - 1) \X (0 .. shape[2] - 1)

len(img) == img.shape[1]

\* the cast of one pixel value: the fraction is dropped, 16 bits are kept
ushort(v) == ((v \div 10) % 65536) * 10

np_ushort(img) ==
    [shape |-> img.shape, px |-> [p \in Coords(img.shape) |-> ushort(img.px[p])]]

np_zeros(shape) == [shape |-> shape, px |-> [p \in Coords(shape) |-> 0]]

SliceEnd(stop, n) == IF stop < n THEN stop ELSE n

\* img[r0:r1, c0:c1]
GetSlice(img, r0, r1, c0, c1) ==
    LET shape == <<SliceEnd(r1, img.shape[1]) - r0, SliceEnd(c1, img.shape[2]) - c0>>
    IN  [shape |-> shape,
         px |-> [p \in Coords(shape) |-> img.px[<<p[1] + r0, p[2] + c0>>]]]

\* dst[r0:r1, c0:c1] = src
SetSlice(dst, r0, r1, c0, c1, src) ==
    LET r9 == SliceEnd(r1, dst.shape[1])
        c9 == SliceEnd(c1, dst.shape[2])
    IN  [shape |-> dst.shape,
         px |-> [p \in Coords(dst.shape) |->
                   IF p[1] >= r0 /\ p[1] < r9 /\ p[2] >= c0 /\ p[2] < c9
                   THEN src.px[<<p[1] - r0, p[2] - c0>>]
                   ELSE dst.px[p]]]

\* the four quadrants read from rows and columns 256 on: the seam is kept
SmvRepack_keepseam(img) ==
    LET h  == img.shape[1]
        w  == img.shape[2]
        n0 == np_zeros(<<512, 512>>)
        n1 == SetSlice(n0, 0, 256, 0, 256, GetSlice(img, 0, 256, 0, 256))
        n2 == SetSlice(n1, 256, 512, 0, 256, GetSlice(img, 256, h, 0, 256))
        n3 == SetSlice(n2, 0, 256, 256, 512, GetSlice(img, 0, 256, 256, w))
    IN  SetSlice(n3, 256, 512, 256, 512, GetSlice(img, 256, h, 256, w))

\* newimg = np.zeros([512,512]); newimg[0:256,0:256] = img[0:256,0:256];
\* newimg[256:,0:256] = img[260:,0:256]; newimg[0:256,256:] = img[0:256,260:];
\* newimg[256:,256:] = img[260:,260:]
SmvRepack(img) ==
    LET h  == img.shape[1]
        w  == img.shape[2]
        n0 == np_zeros(<<512, 512>>)
        n1 == SetSlice(n0, 0, 256, 0, 256, GetSlice(img, 0, 256, 0, 256))
        n2 == SetSlice(n1, 256, 512, 0, 256, GetSlice(img, 260, h, 0, 256))
        n3 == SetSlice(n2, 0, 256, 256, 512, GetSlice(img, 0, 256, 260, w))
    IN  SetSlice(n3, 256, 512, 256, 512, GetSlice(img, 260, h, 260, w))

\* img = np.ushort(img); if len(img) == 516: img = newimg
SmvPixels(img) ==
    LET u == np_ushort(img)
    IN  IF len(u) = 516 THEN SmvRepack(u) ELSE u

\* detector frames are square: the Timepix quad with its seam, a frame
\* without the seam, and a larger camera
DetectorShapes == {<<516, 516>>, <<512, 512>>, <<1024, 1024>>}

\* two test patterns
Patterns == {1, 2}

DetectorPixel(pattern, p) ==
    IF pattern = 1
    THEN (p[1] * 517 + p[2] * 3 + 5) % 40960
    ELSE (p[1] * 11 + p[2] * 1013 + 7) % 650000

DetectorImage(shape, pattern) ==
    [shape |-> shape, px |-> [p \in Coords(shape) |-> DetectorPixel(pattern, p)]]

\* row and column numbers at the corners and on both sides of the seam
ProbeIndices == {0, 1, 255, 256, 257, 259, 260, 511}

\* the image after writeIMG's cast and re-packing has been applied n times
RECURSIVE SmvPixelsTimes(_, _)
SmvPixelsTimes(img, n) == IF n = 0 THEN img ELSE SmvPixels(SmvPixelsTimes(img, n - 1))

(***************************************************************************)
(* writeIMG                                                                *)
(***************************************************************************)
\* the attribute zipped with self.data in the loop header
writeIMG_headers_attr == "header"

ImgName(path, j) == join(path, Fmt05(j) \o ".img")

\* len(img) of a corrected image: 516 rows, or 512 for image 2
ImageHeight(img) == IF img.raw = 2 THEN 512 ELSE 516

\* np.ushort(img), then the 516 -> 512 re-packing of the four quadrants
SmvImage(img) ==
    LET u == [cast |-> "ushort", image |-> img]
    IN  IF ImageHeight(img) = 516 THEN [repacked |-> 512, image |-> u] ELSE u

\* the entries of the SMV header that vary with the frame or the object
SmvHeader(s, h) ==
    [HEADER_BYTES |-> 512, SIZE1 |-> 512, SIZE2 |-> 512,
     PIXEL_SIZE |-> s.physical_pixelsize,
     DATE |-> ToString(h.ImageGetTime), TIME |-> ToString(h.ImageExposureTime),
     DISTANCE |-> [num |-> 11 * s.distance.num, den |-> 10 * s.distance.den],
     PHI |-> s.startangle, OSC_START |-> s.startangle, OSC_RANGE |-> s.osangle,
     WAVELENGTH |-> s.wavelength,
     BEAM_CENTER |-> s.beam_center]

SmvContent(s, img, h) == [fmt |-> "smv", header |-> SmvHeader(s, h), img |-> SmvImage(img)]

RECURSIVE writeIMGLoop(_, _, _, _, _, _)
writeIMGLoop(s, hs, path, fs, i, f) ==
    IF i >= Len(s.data) \/ i >= Len(hs) THEN Returned(fs)
    ELSE LET j  == i + 1
             fn == ImgName(path, j)
         IN  IF f.at = i THEN FailedWrite(fs, fn, i, f)
             ELSE writeIMGLoop(s, hs, path,
                               WriteFile(fs, fn, SmvContent(s, s.data[i + 1], hs[i + 1])),
                               i + 1, f)

writeIMGEffect(s, path, fs, f) ==
    IF writeIMG_headers_attr \notin DOMAIN s
    THEN Raised(fs, "AttributeError")
    ELSE writeIMGLoop(s, s[writeIMG_headers_attr], path, fs, 0, f)

(***************************************************************************)
(* fixDistortion and MRCCreator                                            *)
(***************************************************************************)
azimuth == -661
amplitude == 243

\* np.copy(directXY): a fresh array, so that writes to it leave directXY alone
np_copy(a) == a

\* the thresholds tested against the running center instead of directXY
AxisAdjust_running(c, n) ==
    LET c1 == IF c > 255 * n THEN c + 1 * n ELSE c
        c2 == IF c1 > 256 * n THEN c1 + 2 * n ELSE c1
    IN  IF c2 > 257 * n THEN c2 + 1 * n ELSE c2

\* one axis of the center; c is the coordinate times n, so that
\* "directXY[k] > 255" reads c > 255 * n and "center[k] += 1" adds n
AxisAdjust(c, n) ==
    c + (IF c > 255 * n THEN 1 * n ELSE 0)
      + (IF c > 256 * n THEN 2 * n ELSE 0)
      + (IF c > 257 * n THEN 1 * n ELSE 0)

\* apply_stretch_correction(image, center=center, azimuth=..., amplitude=...)
apply_stretch_correction(image, center, azi, amp) ==
    [stretched |-> image, center |-> center, azimuth |-> azi, amplitude |-> amp]

\* center = directXY without the copy: the adjustment lands in the caller's array
fixDistortion_alias(image, directXY) ==
    LET center == [directXY EXCEPT !.sx = AxisAdjust(directXY.sx, directXY.n),
                                   !.sy = AxisAdjust(directXY.sy, directXY.n)]
    IN  [newImage |-> apply_stretch_correction(image, center, azimuth, amplitude),
         directXY |-> center]

\* the returned image, and the caller's directXY array as the call leaves it
fixDistortion(image, directXY) ==
    LET c0     == np_copy(directXY)
        center == [c0 EXCEPT !.sx = AxisAdjust(directXY.sx, directXY.n),
                             !.sy = AxisAdjust(directXY.sy, directXY.n)]
    IN  [newImage |-> apply_stretch_correction(image, center, azimuth, amplitude),
         directXY |-> directXY]

\* img.astype(np.int16)[::-1,:]
FlippedInt16(img) == [flipud |-> [cast |-> "int16", image |-> img]]

MrcContent(s, newImage) == [fmt |-> "mrc", header |-> s.mrc_header, img |-> newImage]

RECURSIVE MRCCreatorLoop(_, _, _, _, _)
MRCCreatorLoop(s, path, fs, i, f) ==
    IF i >= Len(s.data) THEN [self |-> s] @@ Returned(fs)
    ELSE LET j  == i + 1
             fn == ImgName(path, j)
             d  == fixDistortion(FlippedInt16(s.data[i + 1]), s.beam_center)
             s1 == [s EXCEPT !.beam_center = d.directXY]
         IN  IF f.at = i THEN [self |-> s1] @@ FailedWrite(fs, fn, i, f)
             ELSE MRCCreatorLoop(s1, path,
                                 WriteFile(fs, fn, MrcContent(s1, d.newImage)),
                                 i + 1, f)

MRCCreatorEffect(s, path, fs, f) == MRCCreatorLoop(s, path, fs, 0, f)

(***************************************************************************)
(* ED3DCreator                                                             *)
(***************************************************************************)
Ed3dName(path) == join(path, "1.ed3d")

\* the angle taken from the 1-based file index
Ed3dAngle_onebased(s, i) == s.startangle + s.osangle * (i + 1)

\* the angle written on the FILE line of the frame with 0-based index i
Ed3dAngle(s, i) == s.startangle + s.osangle * i

RECURSIVE Ed3dFileLines(_, _, _)
Ed3dFileLines(s, path, i) ==
    IF i >= Len(s.data) THEN <<>>
    ELSE LET j   == i + 1
             fn  == ImgName(path, j)
             ang == Ed3dAngle(s, i)
         IN  <<[key |-> "FILE", fn |-> fn, ang |-> ang, zero |-> 0, ang2 |-> ang]>>
             \o Ed3dFileLines(s, path, i + 1)

Ed3dContent(s, path, rotation_angle) ==
    [fmt |-> "ed3d",
     lines |-> << [key |-> "WAVELENGTH", val |-> s.wavelength],
                  [key |-> "ROTATIONAXIS", val |-> rotation_angle],
                  [key |-> "CCDPIXELSIZE", val |-> s.pixelsize],
                  [key |-> "GONIOTILTSTEP", val |-> s.osangle],
                  [key |-> "BEAMTILTSTEP", val |-> 0],
                  [key |-> "BEAMTILTRANGE", val |-> 0],
                  [key |-> "STRETCHINGMP", val |-> 0],
                  [key |-> "STRETCHINGAZIMUTH", val |-> 0],
                  [key |-> ""],
                  [key |-> "FILELIST"] >>
               \o Ed3dFileLines(s, path, 0)
               \o << [key |-> "ENDFILELIST"] >>]

ED3DCreatorEffect(s, path, rotation_angle, fs, f) ==
    LET fn == Ed3dName(path)
    IN  IF f.at = 0 THEN FailedWrite(fs, fn, -1, f)
        ELSE Returned(WriteFile(fs, fn, Ed3dContent(s, path, rotation_angle)))

(***************************************************************************)
(* XDSINPCreator                                                           *)
(***************************************************************************)
XdsName(pathsmv) == join(pathsmv, "XDS.INP")

\* cos(rotation_angle + k*pi/2), kept symbolic
Cos(rotation_angle, k) == [cos |-> rotation_angle, quarter_turns |-> k]

XdsContent(s, rotation_angle) ==
    [fmt |-> "xds",
     data_begin |-> 1, data_end |-> Len(s.data),
     starting_angle |-> s.startangle, wavelength |-> s.wavelength,
     dmin |-> s.dmin, dmax |-> s.dmax,
     origin_x |-> [num |-> s.beam_center.sx, den |-> s.beam_center.n],
     origin_y |-> [num |-> s.beam_center.sy, den |-> s.beam_center.n],
     sign |-> "+", detdist |-> s.distance, osangle |-> s.osangle,
     rot_x |-> Cos(rotation_angle, 0), rot_y |-> Cos(rotation_angle, 1),
     rot_z |-> 0]

\* the mean of no frames is a scalar nan: self.beam_center[0] cannot index it
XDSINPCreatorEffect(s, pathsmv, rotation_angle, fs, f) ==
    LET fn == XdsName(pathsmv)
    IN  IF s.beam_center.n = 0 THEN Raised(fs, "IndexError")
        ELSE IF f.at = 0 THEN FailedWrite(fs, fn, -1, f)
        ELSE Returned(WriteFile(fs, fn, XdsContent(s, rotation_angle)))

(***************************************************************************)
(* The encoder calls                                                       *)
(***************************************************************************)
NoCall == [op |-> "", path |-> "", outcome |-> "", frame |-> -1, filename |-> ""]

Call(op, path, r) ==
    [op |-> op, path |-> path, outcome |-> r.outcome, frame |-> r.frame,
     filename |-> r.filename]

writeTiff ==
    /\ pc = "constructed"
    /\ ncalls < MaxCalls
    /\ ncalls' = ncalls + 1
    /\ \E path \in Paths, f \in FrameFails(Len(self.data)) :
         LET r == writeTiffEffect(self, path, files, f)
         IN  /\ files' = r.files
             /\ last' = Call("writeTiff", path, r)
    /\ UNCHANGED <<pc, buffer, acquired, ctor, self, err, others>>

writeIMG ==
    /\ pc = "constructed"
    /\ ncalls < MaxCalls
    /\ ncalls' = ncalls + 1
    /\ \E path \in Paths, f \in FrameFails(Len(self.data)) :
         LET r == writeIMGEffect(self, path, files, f)
         IN  /\ files' = r.files
             /\ last' = Call("writeIMG", path, r)
    /\ UNCHANGED <<pc, buffer, acquired, ctor, self, err, others>>

MRCCreator ==
    /\ pc = "constructed"
    /\ ncalls < MaxCalls
    /\ ncalls' = ncalls + 1
    /\ \E path \in Paths, f \in FrameFails(Len(self.data)) :
         LET r == MRCCreatorEffect(self, path, files, f)
         IN  /\ files' = r.files
             /\ self' = r.self
             /\ last' = Call("MRCCreator", path, r)
    /\ UNCHANGED <<pc, buffer, acquired, ctor, err, others>>

ED3DCreator ==
    /\ pc = "constructed"
    /\ ncalls < MaxCalls
    /\ ncalls' = ncalls + 1
    /\ \E path \in Paths, rotation_angle \in RotationAngles, f \in OpenFails :
         LET r == ED3DCreatorEffect(self, path, rotation_angle, files, f)
         IN  /\ files' = r.files
             /\ last' = Call("ED3DCreator", path, r)
    /\ UNCHANGED <<pc, buffer, acquired, ctor, self, err, others>>

XDSINPCreator ==
    /\ pc = "constructed"
    /\ ncalls < MaxCalls
    /\ ncalls' = ncalls + 1
    /\ \E pathsmv \in Paths, rotation_angle \in RotationAngles, f \in OpenFails :
         LET r == XDSINPCreatorEffect(self, pathsmv, rotation_angle, files, f)
         IN  /\ files' = r.files
             /\ last' = Call("XDSINPCreator", pathsmv, r)
    /\ UNCHANGED <<pc, buffer, acquired, ctor, self, err, others>>

InitWith(buffers) ==
    /\ pc = "new"
    /\ buffer \in buffers
    /\ acquired = buffer
    /\ \E scan \in Scans :
         ctor \in [flatfield_exists : BOOLEAN,
                   camera_length : CameraLengths,
                   osangle : {scan[1]},
                   startangle : {scan[2]},
                   endangle : {scan[3]},
                   rotation_angle : RotationAngles,
                   resolution_range : {<<200, 8>>}]
    /\ self = Empty
    /\ err = ""
    /\ files = Empty
    /\ last = NoCall
    /\ ncalls = 0
    /\ smv = Empty
    /\ cal = Empty
    /\ work = Empty

Init == InitWith(ScanBuffers)

Next ==
    \/ Construct
    \/ writeTiff
    \/ writeIMG
    \/ MRCCreator
    \/ ED3DCreator
    \/ XDSINPCreator

\* a conversion run: construction, then encoder calls in any order
Spec == Init /\ [][Next]_vars

\* construction alone, over every buffer and configuration
InitAny == InitWith(Buffers)

SpecInit == InitAny /\ [][Construct]_vars

\* construction over every buffer, then MRC output
NextMRC ==
    \/ Construct
    \/ MRCCreator

SpecMRC == InitAny /\ [][NextMRC]_vars

\* no ImgConversion object and no file: the state the operations outside
\* the class start from
NoConversion ==
    /\ pc = "new" /\ buffer = <<>> /\ acquired = <<>> /\ ctor = Empty
    /\ self = Empty /\ err = "" /\ files = Empty /\ last = NoCall /\ ncalls = 0

conversion == <<pc, buffer, acquired, ctor, self, err, files, last, ncalls>>

\* the images and pixels writeIMG's re-packing is looked at with
InitRepack ==
    /\ NoConversion
    /\ cal = Empty /\ work = Empty
    /\ smv \in [shape : DetectorShapes, pattern : Patterns,
                r : ProbeIndices, c : ProbeIndices, out : {<<>>}]

\* lines 78 to 89 of writeIMG, applied to the image once more
Repack ==
    /\ DOMAIN smv # {}
    /\ Len(smv.out) < MaxPacks
    /\ LET img == SmvPixelsTimes(DetectorImage(smv.shape, smv.pattern),
                                 Len(smv.out) + 1)
       IN  smv' = [smv EXCEPT !.out =
                     Append(@, [shape |-> img.shape, px |-> img.px[<<smv.r, smv.c>>]])]
    /\ UNCHANGED <<conversion, cal, work>>

SpecRepack == InitRepack /\ [][Repack]_vars

(***************************************************************************)
(* calibrate_stagematrix: calibrate_stage and calibrate_stage_from_stagepos *)
(*                                                                         *)
(* Lengths and stage coordinates are exact fractions [num, den] of a       *)
(* nanometre in lowest terms, pixel sizes are in units of 10^-5 and the    *)
(* overlap is in percent.                                                  *)
(***************************************************************************)
RECURSIVE GCD(_, _)
GCD(a, b) == IF b = 0 THEN a ELSE GCD(b, a % b)

Abs(a) == IF a < 0 THEN -a ELSE a

\* n / d in lowest terms, d > 0
Rat(n, d) ==
    LET g == GCD(Abs(n), d)
    IN  [num |-> n \div g, den |-> d \div g]

IntRat(n) == [num |-> n, den |-> 1]

RatMul(a, b) ==
    LET x == Rat(a.num, b.den)
        y == Rat(b.num, a.den)
    IN  Rat(x.num * y.num, x.den * y.den)

RatAdd(a, b) == Rat(a.num * b.den + b.num * a.den, a.den * b.den)

RatLess(a, b) == a.num * b.den < b.num * a.den

\* len(np.arange(0, stop, step)) for step > 0: the least n with n * step >= stop
ArangeLen(stop, step) ==
    IF stop <= 0 THEN 0
    ELSE (stop * step.den + step.num - 1) \div step.num

\* the k-th element of np.arange(n) * step and of np.arange(0, stop, step)
ArangeAt(k, step) == RatMul(IntRat(k), step)

\* np.arange(0, stage_length, step) taken whole, without [:max_n_step]
axis_positions_uncapped(step, stage_length, min_n_step, max_n_step) ==
    LET n == IF RatLess(IntRat(stage_length), RatMul(step, IntRat(min_n_step)))
             THEN min_n_step
             ELSE ArangeLen(stage_length, step)
    IN  [k \in 1 .. n |-> ArangeAt(k - 1, step)]

\* if step * min_n_step > stage_length: np.arange(min_n_step) * step
\* else: np.arange(0, stage_length, step)[:max_n_step]
axis_positions(step, stage_length, min_n_step, max_n_step) ==
    LET n == IF RatLess(IntRat(stage_length), RatMul(step, IntRat(min_n_step)))
             THEN min_n_step
             ELSE LET m == ArangeLen(stage_length, step)
                  IN  IF m < max_n_step THEN m ELSE max_n_step
    IN  [k \in 1 .. n |-> ArangeAt(k - 1, step)]

\* np.stack((x_pos, np.zeros_like(x_pos))).T
x_range(pos) == [k \in 1 .. Len(pos) |-> <<pos[k], IntRat(0)>>]

\* np.stack((np.zeros_like(y_pos), y_pos)).T
y_range(pos) == [k \in 1 .. Len(pos) |-> <<IntRat(0), pos[k]>>]

\* config.camera.dimensions
CameraDimensions == {<<516, 516>>, <<2048, 1024>>}

\* config.calibration[mode]['pixelsize']: magnification -> pixel size
calibration_pixelsize ==
    (50 :> 5000000) @@ (250 :> 0) @@ (1000 :> InvalidPixelsize) @@ (2500 :> 250000)

Mags == DOMAIN calibration_pixelsize

\* the mag argument when it is not given
None == 0

Overlaps == {0, 50}
StageLengths == {1000, 40000}
NSteps == 1 .. MaxNStep

\* ctrl.stage.xy before the call
StagePositions == {<<IntRat(0), IntRat(0)>>, <<IntRat(1500), Rat(-1401, 2)>>}

\* ranges handed to calibrate_stage_from_stagepos by a caller: those of the
\* docstring, one range alone, no range, and ranges that hold no position
Shift(dx, dy) == <<IntRat(dx), IntRat(dy)>>

DirectRanges ==
    { << <<Shift(0, 0), Shift(10000, 0), Shift(20000, 0)>>,
         <<Shift(0, 0), Shift(0, 10000), Shift(0, 20000)>> >>,
      << <<Shift(500, -500), Shift(0, 0)>> >>,
      << <<Shift(0, 0), Shift(10000, 0)>>, <<>> >>,
      << <<>>, <<Shift(0, 0), Shift(10000, 0)>> >>,
      << >> }

\* ctrl and no call in progress
CalIdle(xy, mag) ==
    [pc |-> "idle", xy |-> xy, mag |-> mag, entry |-> "", args |-> Empty,
     ranges |-> <<>>, stage_x |-> IntRat(0), stage_y |-> IntRat(0),
     i |-> 0, j |-> 0, has_params |-> FALSE, last_image |-> None,
     stage_shifts |-> <<>>, translations |-> <<>>, stagematrix |-> None,
     xy0 |-> xy, moves |-> <<>>, err |-> ""]

\* lines 49-55: the stage position is read once and the lists start empty
StartFromStagepos(c, entry, args, ranges) ==
    [c EXCEPT !.pc = "loop", !.entry = entry, !.args = args, !.ranges = ranges,
              !.stage_x = c.xy[1], !.stage_y = c.xy[2],
              !.i = 0, !.j = 0, !.has_params = FALSE, !.last_image = None,
              !.stage_shifts = <<>>, !.translations = <<>>,
              !.xy0 = c.xy, !.moves = <<>>, !.err = ""]

\* the target computed from the stage position as it is now
Target_from_current(c, d) == <<RatAdd(c.xy[1], d[1]), RatAdd(c.xy[2], d[2])>>

\* new_x_pos = stage_x + dx; new_y_pos = stage_y + dy
Target(c, d) == <<RatAdd(c.stage_x, d[1]), RatAdd(c.stage_y, d[2])>>

\* ctrl.getImage() with the stage at xy
getImage(xy) == [image_at |-> xy]

\* register_translation(last_image, img)
register_translation(last_image, img) == [from |-> last_image, to |-> img]

\* fit_affine_transformation(stage_shifts, translations).r
fit_affine_transformation(stage_shifts, translations) ==
    [fit_of |-> stage_shifts, onto |-> translations]

\* calibrate_stage up to its call of calibrate_stage_from_stagepos
calibrate_stage_entry(c, a) ==
    LET mag       == IF a.mag # None THEN a.mag ELSE c.mag
        c1        == [c EXCEPT !.mag = mag]
        pixelsize == calibration_pixelsize[mag]
        ps        == Rat(pixelsize, 100000)
        keep      == Rat(100 - a.overlap, 100)
        x_step    == RatMul(RatMul(IntRat(a.shape[1]), ps), keep)
        y_step    == RatMul(RatMul(IntRat(a.shape[2]), ps), keep)
        x_pos     == axis_positions(x_step, a.stage_length, a.min_n_step, a.max_n_step)
        y_pos     == axis_positions(y_step, a.stage_length, a.min_n_step, a.max_n_step)
    IN  IF pixelsize = InvalidPixelsize \/ pixelsize = 0
        THEN [c1 EXCEPT !.pc = "raised", !.entry = "calibrate_stage", !.args = a,
                        !.err = "ValueError"]
        ELSE StartFromStagepos(c1, "calibrate_stage", a,
                               <<x_range(x_pos), y_range(y_pos)>>)

calibrate_stage ==
    /\ DOMAIN cal # {}
    /\ cal.pc = "idle"
    /\ \E a \in [mag : Mags \cup {None}, shape : CameraDimensions,
                 overlap : Overlaps, stage_length : StageLengths,
                 min_n_step : NSteps, max_n_step : NSteps] :
         cal' = calibrate_stage_entry(cal, a)
    /\ UNCHANGED <<conversion, smv, work>>

calibrate_stage_from_stagepos ==
    /\ DOMAIN cal # {}
    /\ cal.pc = "idle"
    /\ \E ranges \in DirectRanges :
         cal' = StartFromStagepos(cal, "calibrate_stage_from_stagepos", Empty, ranges)
    /\ UNCHANGED <<conversion, smv, work>>

\* one pass of the inner loop (lines 61-89): move, take an image, and from
\* the second position of a range on record a translation and a stage shift
MoveAndAcquire ==
    /\ DOMAIN cal # {}
    /\ cal.pc = "loop"
    /\ cal.i < Len(cal.ranges)
    /\ cal.j < Len(cal.ranges[cal.i + 1])
    /\ LET d      == cal.ranges[cal.i + 1][cal.j + 1]
           target == Target(cal, d)
           moved  == [cal EXCEPT !.xy = target, !.moves = Append(@, target),
                                 !.has_params = TRUE]
           img    == getImage(target)
       IN  \E raises \in BOOLEAN :
             cal' = IF raises
                    THEN [moved EXCEPT !.pc = "raised", !.err = "getImage"]
                    ELSE [moved EXCEPT
                            !.translations =
                                IF cal.j > 0
                                THEN Append(@, register_translation(cal.last_image, img))
                                ELSE @,
                            !.stage_shifts = IF cal.j > 0 THEN Append(@, d) ELSE @,
                            !.last_image = img,
                            !.j = @ + 1]
    /\ UNCHANGED <<conversion, smv, work>>

\* the end of a range (line 92, d[i] = params) and the start of the next
\* (line 59); params is unbound until the first pass of the inner loop
EndOfRange ==
    /\ DOMAIN cal # {}
    /\ cal.pc = "loop"
    /\ cal.i < Len(cal.ranges)
    /\ cal.j >= Len(cal.ranges[cal.i + 1])
    /\ cal' = IF cal.has_params
              THEN [cal EXCEPT !.i = @ + 1, !.j = 0, !.last_image = None]
              ELSE [cal EXCEPT !.pc = "raised", !.err = "UnboundLocalError"]
    /\ UNCHANGED <<conversion, smv, work>>

\* lines 94-123: back to the original position, then the fit
ReturnToOrigin ==
    /\ DOMAIN cal # {}
    /\ cal.pc = "loop"
    /\ cal.i >= Len(cal.ranges)
    /\ cal' = [cal EXCEPT !.xy = <<cal.stage_x, cal.stage_y>>,
                          !.stagematrix =
                              fit_affine_transformation(cal.stage_shifts,
                                                        cal.translations),
                          !.pc = "returned"]
    /\ UNCHANGED <<conversion, smv, work>>

InitStage ==
    /\ NoConversion
    /\ smv = Empty /\ work = Empty
    /\ \E xy \in StagePositions, mag \in Mags : cal = CalIdle(xy, mag)

NextStage ==
    \/ calibrate_stage
    \/ calibrate_stage_from_stagepos
    \/ MoveAndAcquire
    \/ EndOfRange
    \/ ReturnToOrigin

\* one stage calibration on a microscope
SpecStage == InitStage /\ [][NextStage]_vars

(***************************************************************************)
(* io: get_new_work_subdirectory                                           *)
(***************************************************************************)
\* config.cfg.work_directory
work_directory == "work"

Stems == {"experiment", "scan"}

\* the drc argument; "" stands for the default None
Drcs == {"", "data"}

\* the number argument
Numbers == {1, 2, 3}

\* directories that may exist before the first call
EarlierDirs ==
    {join(work_directory, "experiment_" \o ToString(k)) : k \in Numbers}

\* drc / f'{stem}_{number}'
SubdirPath(drc, stem, number) == join(drc, stem \o "_" \o ToString(number))

\* the number tried first, taken whether or not its path exists
first_free_unchecked(exists, drc, stem, number) == number

\* while path.exists(): number += 1
RECURSIVE first_free(_, _, _, _)
first_free(exists, drc, stem, number) ==
    IF SubdirPath(drc, stem, number) \in exists
    THEN first_free(exists, drc, stem, number + 1)
    ELSE number

\* the call as a whole: the path it returns and the directories afterwards;
\* mkdir(parents=True) makes drc as well
get_new_work_subdirectory_effect(exists, stem, drc_arg, number, mkdir) ==
    LET drc  == IF drc_arg = "" THEN work_directory ELSE drc_arg
        k    == first_free(exists, drc, stem, number)
        path == SubdirPath(drc, stem, k)
    IN  [drc |-> drc, k |-> k, path |-> path,
         exists |-> IF mkdir THEN exists \cup {path, drc} ELSE exists]

get_new_work_subdirectory ==
    /\ DOMAIN work # {}
    /\ Len(work.calls) < MaxWorkCalls
    /\ \E stem \in Stems, drc \in Drcs, number \in Numbers, mkdir \in BOOLEAN :
         LET r == get_new_work_subdirectory_effect(work.exists, stem, drc,
                                                   number, mkdir)
         IN  work' = [exists |-> r.exists,
                      calls  |-> Append(work.calls,
                                        [stem |-> stem, drc |-> r.drc,
                                         number |-> number, mkdir |-> mkdir,
                                         before |-> work.exists,
                                         k |-> r.k, path |-> r.path])]
    /\ UNCHANGED <<conversion, smv, cal>>

InitWork ==
    /\ NoConversion
    /\ smv = Empty /\ cal = Empty
    /\ \E dirs \in SUBSET EarlierDirs :
         work = [exists |-> dirs, calls |-> <<>>]

\* successive calls on one file system
SpecWork == InitWork /\ [][get_new_work_subdirectory]_vars

(***************************************************************************)
(* Properties                                                              *)
(***************************************************************************)
Constructed == pc = "constructed"

PerFrameEncoders == {"writeTiff", "writeIMG", "MRCCreator"}

\* the name of the file the per-frame encoder op writes for 1-based index j
FrameFileName(op, path, j) ==
    IF op = "writeTiff" THEN TiffName(path, j) ELSE ImgName(path, j)

\* C1: when construction returns, the caller's buffer is empty and the frame
\* store holds one entry per acquired pair, in acquisition order: data[i] is
\* the flatfield-corrected image of the i-th pair and headers[i] its header.
C1_FrameStoreHoldsBuffer ==
    Constructed =>
        /\ buffer = <<>>
        /\ Len(self.data) = Len(acquired)
        /\ Len(self.headers) = Len(acquired)
        /\ \A i \in 1..Len(acquired) :
             /\ self.data[i] = [raw |-> acquired[i][1], flatfield |-> FlatfieldImage]
             /\ self.headers[i] = acquired[i][2]

C1_Witness ==
    /\ Constructed
    /\ Len(acquired) = 3
    /\ acquired[1] # acquired[2]
    /\ acquired[2] # acquired[3]
    /\ buffer = <<>>

\* the content each per-frame encoder is to leave at index j: frame j - 1
HoldsFrame(op, content, j) ==
    CASE op = "writeTiff" ->
           /\ content.fmt = "tiff"
           /\ content.img = self.data[j]
           /\ content.header = self.headers[j]
      [] op = "writeIMG" ->
           /\ content.fmt = "smv"
           /\ content.img = SmvImage(self.data[j])
           /\ content.header.DATE = ToString(self.headers[j].ImageGetTime)
           /\ content.header.TIME = ToString(self.headers[j].ImageExposureTime)
      [] OTHER ->
           /\ content.fmt = "mrc"
           /\ content.img.stretched.flipud.image = self.data[j]

\* a per-frame encoder call that no I/O failure cut short
Uninterrupted(op) == last.op = op /\ last.outcome # "IOError"

\* after such a call every frame i has its file, under index i + 1
AllFramesWritten(op) ==
    \A i \in 0..(Len(self.data) - 1) :
        LET fn == last.path \o "/" \o Fmt05(i + 1)
                  \o (IF op = "writeTiff" THEN ".tiff" ELSE ".img")
        IN  /\ fn \in DOMAIN files
            /\ HoldsFrame(op, files[fn], i + 1)

\* the FILE lines of an ED3D file name the .img files 1, 2, ... in order
Ed3dReferencesInOrder(path) ==
    LET fn == path \o "/1.ed3d"
    IN  fn \in DOMAIN files =>
          LET fl == SelectSeq(files[fn].lines, LAMBDA l : l.key = "FILE")
          IN  /\ Len(fl) = Len(self.data)
              /\ \A i \in 0..(Len(self.data) - 1) :
                   fl[i + 1].fn = path \o "/" \o Fmt05(i + 1) \o ".img"

\* C2: in every format frame i (0-based) is written or referenced under the
\* 1-based, 5-digit index i + 1: writeTiff, writeIMG and MRCCreator each
\* write every frame to its index, skipping none, and the i-th FILE line of
\* the ED3D file names the .img file with index i + 1.
C2_FrameIndexInEveryFormat ==
    Constructed =>
        /\ \A op \in PerFrameEncoders : Uninterrupted(op) => AllFramesWritten(op)
        /\ \A path \in Paths : Ed3dReferencesInOrder(path)

\* C3: writeIMG on a constructed object completes without error and leaves
\* one .img file per frame, 00001.img onwards, the header of file i + 1
\* taking DATE and TIME from the acquisition header of frame i.
C3_WriteIMGWritesEveryFrame ==
    (Constructed /\ Uninterrupted("writeIMG")) =>
        /\ last.outcome = "ok"
        /\ AllFramesWritten("writeIMG")

\* C4: encoder calls, in any order and number, succeeding or failing, leave
\* the data model as construction left it: the frame store, beam_center,
\* pixelsize, distance, wavelength and the scan parameters.
C4_EncodersLeaveDataModel ==
    Constructed =>
        /\ self = InitEffect(acquired, ctor).self
        /\ Len(self.data) = Len(acquired)
        /\ self.osangle = ctor.osangle
        /\ self.startangle = ctor.startangle
        /\ self.beam_center.n = Len(acquired)

\* after two calls, the later one cut short, with a center that fixDistortion
\* has to adjust
C4_Witness ==
    /\ Constructed
    /\ ncalls = 2
    /\ last.op = "MRCCreator"
    /\ last.outcome = "IOError"
    /\ last.frame = 1
    /\ files # Empty
    /\ self.beam_center.sx > 256 * self.beam_center.n

\* the encoders, numbered
EncoderOps == <<"writeTiff", "writeIMG", "MRCCreator", "ED3DCreator", "XDSINPCreator">>

\* an encoder call with its arguments
Invocations ==
    [op : 1..3, path : Paths, rot : {0}]
    \cup [op : 4..5, path : Paths, rot : RotationAngles]

\* the file system after call a, met by no I/O failure, made on fs
Run(a, fs) ==
    CASE EncoderOps[a.op] = "writeTiff"   -> writeTiffEffect(self, a.path, fs, NoFail).files
      [] EncoderOps[a.op] = "writeIMG"    -> writeIMGEffect(self, a.path, fs, NoFail).files
      [] EncoderOps[a.op] = "MRCCreator"  -> MRCCreatorEffect(self, a.path, fs, NoFail).files
      [] EncoderOps[a.op] = "ED3DCreator" -> ED3DCreatorEffect(self, a.path, a.rot, fs, NoFail).files
      [] OTHER -> XDSINPCreatorEffect(self, a.path, a.rot, fs, NoFail).files

C6_Ed3dAngles ==
    Constructed =>
        \A path \in Paths :
            LET fn == path \o "/1.ed3d"
            IN  fn \in DOMAIN files =>
                  LET lines == files[fn].lines
                      n     == Len(acquired)
                      first == CHOOSE k \in 1..Len(lines) : lines[k].key = "FILELIST"
                  IN  /\ Len(lines) = first + n + 1
                      /\ lines[Len(lines)].key = "ENDFILELIST"
                      /\ \A k \in 1..first : lines[k].key # "FILE"
                      /\ \A i \in 0..(n - 1) :
                           LET l == lines[first + 1 + i]
                           IN  /\ l.key = "FILE"
                               /\ l.ang = ctor.startangle + ctor.osangle * i
                               /\ l.ang2 = l.ang
                      /\ (n = 3 /\ ctor.osangle = 5 /\ ctor.startangle = 100) =>
                           /\ lines[first + 1].ang = 100
                           /\ lines[first + 2].ang = 105
                           /\ lines[first + 3].ang = 110

\* the scenario: 3 frames, osangle 0.5, startangle 10.0, the file written
C6_Witness ==
    /\ Constructed
    /\ Len(acquired) = 3
    /\ ctor.osangle = 5
    /\ ctor.startangle = 100
    /\ \E path \in Paths :
         /\ (path \o "/1.ed3d") \in DOMAIN files
         /\ Len(files[path \o "/1.ed3d"].lines) = 14

\* coordinates around the thresholds, in half pixels
HalfPixels == 505..520

\* the adjustment of the coordinate c / n, times n: the table of the claim
AdjustTable(c, n) ==
    CASE c <= 255 * n -> 0
      [] c <= 256 * n -> 1 * n
      [] c <= 257 * n -> 3 * n
      [] OTHER        -> 4 * n

\* C7: the center handed to the stretch transform has each axis adjusted on
\* its own, by the table tested on the original coordinate c: c up to 255,
\* c+1 up to 256, c+3 up to 257, c+4 above; the adjustment never exceeds 4
\* and does not decrease as c grows, and the center (100, 120) goes through
\* unchanged.
C7_FixDistortionSteps ==
    /\ \A fn \in DOMAIN files :
         files[fn].fmt = "mrc" =>
           LET bc  == self.beam_center
               cen == files[fn].img.center
           IN  /\ cen.n = bc.n
               /\ cen.sx = bc.sx + AdjustTable(bc.sx, bc.n)
               /\ cen.sy = bc.sy + AdjustTable(bc.sy, bc.n)
               /\ cen.sx - bc.sx <= 4 * bc.n
               /\ cen.sy - bc.sy <= 4 * bc.n
               /\ (bc.sx <= bc.sy) => (cen.sx - bc.sx <= cen.sy - bc.sy)
               /\ (bc = [sx |-> 100, sy |-> 120, n |-> 1]) => cen = bc
    /\ \A c \in HalfPixels :
         /\ AxisAdjust(c, 2) = c + AdjustTable(c, 2)
         /\ AxisAdjust(c, 2) - c <= AxisAdjust(c + 1, 2) - (c + 1)

\* an MRC file written with a center between the thresholds on both axes:
\* x in (255, 256], y in (256, 257]
C7_Witness ==
    /\ Constructed
    /\ self.beam_center.sx > 255 * self.beam_center.n
    /\ self.beam_center.sx <= 256 * self.beam_center.n
    /\ self.beam_center.sy > 256 * self.beam_center.n
    /\ self.beam_center.sy <= 257 * self.beam_center.n
    /\ \E fn \in DOMAIN files : files[fn].fmt = "mrc"

\* C8: a configuration error at construction (no flatfield file, no
\* pixel-size entry for the camera length) fails the construction at once,
\* before any frame has been removed from the caller's buffer.
C8_ConfigErrorLeavesBuffer ==
    pc = "failed" => buffer = acquired

\* C9: a pixel size of exactly 0.0 or 1.0 is rejected and never used: no
\* object is constructed from it and no distance is derived from it; every
\* other pixel size gives a strictly positive distance.
C9_InvalidPixelsizeRejected ==
    /\ Constructed =>
         /\ self.pixelsize \notin {0, InvalidPixelsize}
         /\ self.distance.num > 0
         /\ self.distance.den > 0
    /\ (pc = "failed" /\ "pixelsize" \in DOMAIN self
          /\ self.pixelsize \in {0, InvalidPixelsize}) =>
         "distance" \notin DOMAIN self

\* C10: when the write of frame k fails in a per-frame encoder, the error
\* that reaches the caller names the target file of frame k (and with it the
\* index k + 1), the files of the frames before k are in place, and an
\* encoder run on an empty directory has left no file for a frame after k.
C10_WriteErrorNamesFrame ==
    (Constructed /\ last.op \in PerFrameEncoders /\ last.outcome = "IOError") =>
        /\ last.filename = FrameFileName(last.op, last.path, last.frame + 1)
        /\ \A i \in 0..(last.frame - 1) :
             LET fn == FrameFileName(last.op, last.path, i + 1)
             IN  fn \in DOMAIN files /\ HoldsFrame(last.op, files[fn], i + 1)
        /\ ncalls = 1 =>
             \A i \in (last.frame + 1)..(Len(self.data) - 1) :
                 FrameFileName(last.op, last.path, i + 1) \notin DOMAIN files

\* the input row or column that output row or column i is read from
SeamSkip(i) == IF i >= 256 THEN i + 4 ELSE i

\* C11: a 516-row image is re-packed to 512x512 with output pixel (r, c)
\* equal to the cast input pixel (r + 4 if r >= 256 else r, c + 4 if
\* c >= 256 else c), which drops input rows and columns 256..259 and keeps
\* every other one exactly once; an image of another height keeps its shape
\* and pixels; applying the re-packing again changes nothing.
C11_SmvRepacking ==
    (DOMAIN smv # {} /\ Len(smv.out) >= 1) =>
        LET first == smv.out[1]
            src   == IF smv.shape[1] = 516
                     THEN <<SeamSkip(smv.r), SeamSkip(smv.c)>>
                     ELSE <<smv.r, smv.c>>
        IN  /\ first.shape = IF smv.shape[1] = 516 THEN <<512, 512>> ELSE smv.shape
            /\ first.px = ushort(DetectorPixel(smv.pattern, src))
            /\ \A k \in 2 .. Len(smv.out) : smv.out[k] = first
            /\ {SeamSkip(i) : i \in 0 .. 511} = (0 .. 515) \ (256 .. 259)
            /\ Cardinality({SeamSkip(i) : i \in 0 .. 511}) = 512

\* a pixel just below the seam of a 516-row image, re-packed twice
C11_Witness ==
    /\ DOMAIN smv # {}
    /\ smv.shape = <<516, 516>>
    /\ smv.r = 256 /\ smv.c = 255
    /\ Len(smv.out) = 2

\* the beam center as the constructor computed it from the acquired frames
ConstructedCenter == InitEffect(acquired, ctor).self.beam_center

MrcFiles == {fn \in DOMAIN files : files[fn].fmt = "mrc"}

\* C12: the object holds the beam center the constructor computed from all
\* frames; every MRC file carries that one center with the adjustment of
\* fixDistortion applied to it once, the same for every frame, and the SMV
\* headers and the XDS origin carry it unadjusted, whatever was called before.
C12_OneBeamCenter ==
    Constructed =>
        LET bc == ConstructedCenter
            adjusted == [sx |-> bc.sx + AdjustTable(bc.sx, bc.n),
                         sy |-> bc.sy + AdjustTable(bc.sy, bc.n),
                         n  |-> bc.n]
        IN  /\ self.beam_center = bc
            /\ bc.n = Len(acquired)
            /\ \A fn \in MrcFiles : files[fn].img.center = adjusted
            /\ \A fn \in MrcFiles : \A gn \in MrcFiles :
                 files[fn].img.center = files[gn].img.center
            /\ \A fn \in DOMAIN files :
                 /\ files[fn].fmt = "smv" => files[fn].header.BEAM_CENTER = bc
                 /\ files[fn].fmt = "xds" =>
                      /\ files[fn].origin_x = [num |-> bc.sx, den |-> bc.n]
                      /\ files[fn].origin_y = [num |-> bc.sy, den |-> bc.n]

\* two frames corrected by MRCCreator with a center that fixDistortion
\* adjusts on both axes, then XDS.INP written from the same object
C12_Witness ==
    /\ Constructed
    /\ Len(self.data) = 2
    /\ self.beam_center.sx > 255 * self.beam_center.n
    /\ self.beam_center.sy > 255 * self.beam_center.n
    /\ Cardinality(MrcFiles) = 2
    /\ last.op = "XDSINPCreator"
    /\ last.outcome = "ok"
    /\ \E fn \in DOMAIN files : files[fn].fmt = "xds"

\* C13: the ROTATIONAXIS line of every ED3D file and the rotation-axis vector
\* of every XDS.INP file are those of the rotation_angle the constructor was
\* given, whatever encoder calls were made.
C13_RotationAxisFromConstructor ==
    Constructed =>
        \A fn \in DOMAIN files :
            /\ files[fn].fmt = "ed3d" =>
                 \A k \in 1 .. Len(files[fn].lines) :
                     files[fn].lines[k].key = "ROTATIONAXIS" =>
                         files[fn].lines[k].val = ctor.rotation_angle
            /\ files[fn].fmt = "xds" =>
                 /\ files[fn].rot_x = Cos(ctor.rotation_angle, 0)
                 /\ files[fn].rot_y = Cos(ctor.rotation_angle, 1)

\* a step that is an XDSINPCreator call no I/O failure cut short
XdsCallStep ==
    /\ ncalls' = ncalls + 1
    /\ last'.op = "XDSINPCreator"
    /\ last'.outcome # "IOError"

\* such a step leaves XDS.INP in the given directory, filled with the frame
\* range 1..N and the geometry of the construction, and no other file changed
XdsFilled ==
    LET fn  == last'.path \o "/XDS.INP"
        obj == InitEffect(acquired, ctor).self
    IN  /\ last'.outcome = "ok"
        /\ DOMAIN files' = DOMAIN files \cup {fn}
        /\ \A gn \in DOMAIN files : gn # fn => files'[gn] = files[gn]
        /\ files'[fn].fmt = "xds"
        /\ files'[fn].data_begin = 1
        /\ files'[fn].data_end = Len(acquired)
        /\ files'[fn].starting_angle = ctor.startangle
        /\ files'[fn].osangle = ctor.osangle
        /\ files'[fn].wavelength = wavelength
        /\ files'[fn].dmax = ctor.resolution_range[1]
        /\ files'[fn].dmin = ctor.resolution_range[2]
        /\ files'[fn].origin_x = [num |-> obj.beam_center.sx, den |-> obj.beam_center.n]
        /\ files'[fn].origin_y = [num |-> obj.beam_center.sy, den |-> obj.beam_center.n]
        /\ files'[fn].detdist = obj.distance

\* C14 as stated: every XDSINPCreator call that meets no I/O failure writes
\* XDS.INP with data range [1, N] and the parameters fixed at construction.
C14_XdsInpFilled == [][XdsCallStep => XdsFilled]_vars

\* the same for a frame store that holds at least one frame
XdsInpFilledNonEmpty ==
    [][(XdsCallStep /\ Len(acquired) >= 1) => XdsFilled]_vars

\* calibrate_stage got past its pixel size check and built its two ranges
RangesBuilt ==
    /\ DOMAIN cal # {}
    /\ cal.entry = "calibrate_stage"
    /\ cal.err # "ValueError"

\* C15: with min_n_step <= max_n_step (the step is positive for every valid
\* pixel size and overlap below 1), calibrate_stage builds an X and a Y range
\* of at least min_n_step and at most max_n_step positions each, both start
\* at the zero displacement, X positions have no Y displacement and Y
\* positions have no X displacement.
C15_StagePositions ==
    (RangesBuilt /\ cal.args.min_n_step <= cal.args.max_n_step) =>
        /\ Len(cal.ranges) = 2
        /\ \A r \in 1 .. 2 :
             /\ Len(cal.ranges[r]) >= cal.args.min_n_step
             /\ Len(cal.ranges[r]) <= cal.args.max_n_step
             /\ cal.ranges[r][1] = <<IntRat(0), IntRat(0)>>
        /\ \A k \in 1 .. Len(cal.ranges[1]) : cal.ranges[1][k][2] = IntRat(0)
        /\ \A k \in 1 .. Len(cal.ranges[2]) : cal.ranges[2][k][1] = IntRat(0)

\* an X range of min_n_step positions that reaches past stage_length, with a
\* Y range cut from np.arange that is longer than min_n_step and shorter
\* than max_n_step
C15_Witness ==
    /\ RangesBuilt
    /\ cal.args.min_n_step = 1
    /\ cal.args.max_n_step >= 3
    /\ Len(cal.ranges[1]) = 1
    /\ Len(cal.ranges[2]) = 2
    /\ cal.ranges[2][2][2] # IntRat(0)

\* the positions of all ranges, in the order of the ranges
RECURSIVE Flatten(_)
Flatten(ranges) ==
    IF ranges = <<>> THEN <<>> ELSE Head(ranges) \o Flatten(Tail(ranges))

\* the positions of the first n ranges without the first position of each
RECURSIVE NonFirst(_, _)
NonFirst(ranges, n) ==
    IF n = 0 THEN <<>>
    ELSE NonFirst(ranges, n - 1)
         \o (IF ranges[n] = <<>> THEN <<>> ELSE Tail(ranges[n]))

\* the displacements a translation has been recorded for when the loops stand
\* at range i, position j (both counted from 0)
RecordedShifts(ranges, i, j) ==
    NonFirst(ranges, i)
    \o (IF j >= 2 THEN SubSeq(ranges[i + 1], 2, j) ELSE <<>>)

\* C16: the stage is sent to the positions of the ranges in order, each
\* target being the position at the start of the call plus the displacement;
\* a translation and a stage shift are recorded for every position of a
\* range but its first, so both lists have the same length and a range of
\* L >= 1 positions adds L - 1 to each; on return the stage is back where it
\* was when the call started.
C16_StageWalk ==
    (DOMAIN cal # {} /\ cal.pc \in {"loop", "returned", "raised"}
                    /\ cal.err # "ValueError") =>
        LET flat == Flatten(cal.ranges)
        IN  /\ Len(cal.moves) <= Len(flat)
            /\ \A k \in 1 .. Len(cal.moves) :
                 cal.moves[k] = <<RatAdd(cal.xy0[1], flat[k][1]),
                                  RatAdd(cal.xy0[2], flat[k][2])>>
            /\ Len(cal.translations) = Len(cal.stage_shifts)
            /\ cal.pc = "loop" =>
                 /\ cal.stage_shifts = RecordedShifts(cal.ranges, cal.i, cal.j)
                 /\ cal.xy = IF cal.moves = <<>> THEN cal.xy0
                             ELSE cal.moves[Len(cal.moves)]
            /\ cal.pc = "returned" =>
                 /\ cal.moves # <<>> => cal.moves[Len(cal.moves)] =
                        <<RatAdd(cal.xy0[1], flat[Len(flat)][1]),
                          RatAdd(cal.xy0[2], flat[Len(flat)][2])>>
                 /\ Len(cal.moves) = Len(flat)
                 /\ cal.stage_shifts = NonFirst(cal.ranges, Len(cal.ranges))
                 /\ Len(cal.translations) =
                        Len(flat) - Cardinality({r \in 1 .. Len(cal.ranges) :
                                                   cal.ranges[r] # <<>>})
                 /\ cal.xy = cal.xy0

\* the two ranges of the docstring walked from a stage position away from
\* the origin: four pairs recorded, the stage back at the start
C16_Witness ==
    /\ DOMAIN cal # {}
    /\ cal.pc = "returned"
    /\ cal.entry = "calibrate_stage_from_stagepos"
    /\ cal.xy0 # <<IntRat(0), IntRat(0)>>
    /\ Len(cal.ranges) = 2
    /\ Len(cal.moves) = 6
    /\ Len(cal.translations) = 4
    /\ cal.xy = cal.xy0

\* C17, the part about one call: the path returned is <drc>/<stem>_<k> with k
\* the least integer >= number whose path did not exist when the call was
\* made, and with mkdir=True that directory exists from then on.
SmallestFreeReturned(c) ==
    /\ c.k >= c.number
    /\ c.path = c.drc \o "/" \o c.stem \o "_" \o ToString(c.k)
    /\ c.path \notin c.before
    /\ \A m \in c.number .. (c.k - 1) :
         (c.drc \o "/" \o c.stem \o "_" \o ToString(m)) \in c.before
    /\ c.mkdir => c.path \in work.exists

SameTarget(a, b) == a.stem = b.stem /\ a.drc = b.drc

\* C17 as stated: every call returns the smallest free <stem>_<k>, never an
\* existing directory, creates it with mkdir=True, and successive calls with
\* the same stem and directory return distinct paths with increasing k.
C17_NewSubdirectory ==
    DOMAIN work # {} =>
        /\ \A n \in 1 .. Len(work.calls) : SmallestFreeReturned(work.calls[n])
        /\ \A n \in 1 .. Len(work.calls) : \A m \in 1 .. (n - 1) :
             SameTarget(work.calls[m], work.calls[n]) =>
                 /\ work.calls[m].path # work.calls[n].path
                 /\ work.calls[m].k < work.calls[n].k

\* C17 amended: the same for one call; of two calls with the same stem and
\* directory the later returns a different path with a larger k when the
\* earlier one was made with mkdir=True and the later one's number is not
\* smaller.
C17_NewSubdirectoryCreated ==
    DOMAIN work # {} =>
        /\ \A n \in 1 .. Len(work.calls) : SmallestFreeReturned(work.calls[n])
        /\ \A n \in 1 .. Len(work.calls) : \A m \in 1 .. (n - 1) :
             (/\ SameTarget(work.calls[m], work.calls[n])
              /\ work.calls[m].mkdir
              /\ work.calls[m].number <= work.calls[n].number) =>
                 /\ work.calls[m].path # work.calls[n].path
                 /\ work.calls[m].k < work.calls[n].k

\* two calls for the same stem in a directory where experiment_1 was there
\* before: the first skips it and creates experiment_2, the second moves on
C17_Witness ==
    /\ DOMAIN work # {}
    /\ Len(work.calls) = 2
    /\ SameTarget(work.calls[1], work.calls[2])
    /\ work.calls[1].mkdir
    /\ work.calls[1].number = 1
    /\ work.calls[1].k = 2
    /\ work.calls[2].number = 1
    /\ work.calls[2].k = 3

====
